---- MODULE Spec2Model ----
(***************************************************************************)
(* The RFC3164 syslog line parser of src/src/parser.rs as a state machine. *)
(* A text is a sequence of one-character strings; the cursor "rest" is the *)
(* suffix of the input that has not been consumed yet.                     *)
(***************************************************************************)
EXTENDS Integers, Sequences, FiniteSets, TLC

VARIABLES call, now_year, pc, rest, rec, ret, err

vars == <<call, now_year, pc, rest, rec, ret, err>>

(***************************************************************************)
(* Texts, characters and byte values                                       *)
(***************************************************************************)

\* A &str literal as the sequence of its characters.
Chars(str) == [i \in 1..Len(str) |-> SubSeq(str, i, i)]

\* The printable ASCII characters in code order, from ' ' (32) to '~' (126).
\* (Code 96, the grave accent, cannot be written in a string here; its place is
\* held by the name "grave", which no text contains.)
Ascii == Chars(" !\"#$%&'()*+,-./0123456789:;<=>?@ABCDEFGHIJKLMNOPQRSTUVWXYZ[\\]^_")
         \o <<"grave">> \o Chars("abcdefghijklmnopqrstuvwxyz{|}~")

AsciiCode == [c \in {Ascii[i] : i \in 1..Len(Ascii)} |->
                 31 + (CHOOSE i \in 1..Len(Ascii) : Ascii[i] = c)]

\* The value a comparison of the code sees for character c: its ASCII code,
\* 9 for the tab, and a value above 127 for every character outside ASCII.
Ord(c) == IF c \in DOMAIN AsciiCode THEN AsciiCode[c]
          ELSE IF c = "\t" THEN 9
          ELSE 233

Take(s, n) == SubSeq(s, 1, n)
Drop(s, n) == SubSeq(s, n + 1, Len(s))

\* s.starts_with(c)
starts_with(s, c) == Len(s) > 0 /\ s[1] = c

\* Option<T>: None, or Some(x)
None == <<>>
Some(x) == <<x>>

\* ParseErr values; arg is the payload of MonthConversionErr and ExpectedTokenErr.
ParseErr(kind, arg) == [kind |-> kind, arg |-> arg]
NoErr == ParseErr("", <<>>)
UnexpectedEndOfInput == ParseErr("UnexpectedEndOfInput", <<>>)
TooFewDigits == ParseErr("TooFewDigits", <<>>)
TooManyDigits == ParseErr("TooManyDigits", <<>>)
BadSeverityInPri == ParseErr("BadSeverityInPri", <<>>)
BadFacilityInPri == ParseErr("BadFacilityInPri", <<>>)
IntConversionErr == ParseErr("IntConversionErr", <<>>)
ExpectedTokenErr(c) == ParseErr("ExpectedTokenErr", <<c>>)
MonthConversionErr(res) == ParseErr("MonthConversionErr", res)

\* ParseResult<(T, &str)>: Ok((v, r)) or Err(e)
Ok(v, r) == [ok |-> TRUE, val |-> v, rest |-> r, err |-> NoErr]
Err(e) == [ok |-> FALSE, val |-> <<>>, rest |-> <<>>, err |-> e]

(***************************************************************************)
(* Macros                                                                  *)
(***************************************************************************)

\* maybe_expect_char!(s, e).unwrap_or(s)
maybe_expect_char(s, e) == IF starts_with(s, e) THEN Drop(s, 1) ELSE s

\* take_char!(e, c): the new cursor, or the error it returns with
take_char(e, c) ==
    IF Len(e) = 0 THEN Err(UnexpectedEndOfInput)
    ELSE IF e[1] = c THEN Ok(c, Drop(e, 1))
    ELSE Err(ExpectedTokenErr(c))

(***************************************************************************)
(* Primitive scanners                                                      *)
(***************************************************************************)

IsDigit == {c \in DOMAIN AsciiCode : AsciiCode[c] >= 48 /\ AsciiCode[c] <= 57}
IsMonthChar == {c \in DOMAIN AsciiCode : AsciiCode[c] >= 65 /\ AsciiCode[c] <= 122}

\* take_while(input, f, max_chars), f given as the set of characters it accepts.
\* idx is the 0-based index of the loop.
take_while(input, f, max_chars) ==
    LET stops == {idx \in 0..(Len(input) - 1) :
                     input[idx + 1] \notin f \/ idx = max_chars}
    IN IF stops = {} THEN [res |-> <<>>, rest |-> None]
       ELSE LET idx == CHOOSE i \in stops : \A j \in stops : i <= j
            IN [res |-> Take(input, idx), rest |-> Some(Drop(input, idx))]

MaxI32 == 2147483647

RECURSIVE from_digits(_, _, _)
\* The digit loop of i32::from_str: acc*10 + d (or - d for a negative number),
\* None on overflow.
from_digits(ds, acc, neg) ==
    IF Len(ds) = 0 THEN Some(acc)
    ELSE LET d == Ord(ds[1]) - 48
         IN IF neg
            THEN IF acc < ((0 - MaxI32 - 1) + d + 9) \div 10 THEN None
                 ELSE from_digits(Drop(ds, 1), acc * 10 - d, neg)
            ELSE IF acc > (MaxI32 - d) \div 10 THEN None
                 ELSE from_digits(Drop(ds, 1), acc * 10 + d, neg)

\* i32::from_str(s).ok()
i32_from_str(s) ==
    IF Len(s) = 0 THEN None
    ELSE LET signed == s[1] \in {"+", "-"}
             ds == IF signed THEN Drop(s, 1) ELSE s
         IN IF Len(ds) = 0 \/ \E i \in 1..Len(ds) : ds[i] \notin IsDigit THEN None
            ELSE from_digits(ds, 0, s[1] = "-")

parse_num(s, min_digits, max_digits) ==
    LET tw == take_while(s, IsDigit, max_digits)
    IN IF tw.rest = None THEN Err(UnexpectedEndOfInput)
       ELSE IF Len(tw.res) < min_digits THEN Err(TooFewDigits)
       ELSE IF Len(tw.res) > max_digits THEN Err(TooManyDigits)
       ELSE LET n == i32_from_str(tw.res)
            IN IF n = None THEN Err(IntConversionErr) ELSE Ok(n[1], tw.rest[1])

(***************************************************************************)
(* Field parsers                                                           *)
(***************************************************************************)

\* severity::SyslogSeverity::from_int: the severities are the codes 0..7
severity_from_int(i) == IF i \in 0..7 THEN Some(i) ELSE None

\* facility::SyslogFacility::from_int: the facilities are the codes 0..23
facility_from_int(i) == IF i \in 0..23 THEN Some(i) ELSE None

\* parse_pri_val with the severity mask one bit short (pri & 0x3)
parse_pri_val_mask(pri) ==
    LET sev == severity_from_int(pri % 4)
        fac == facility_from_int(pri \div 8)
    IN IF sev = None THEN Err(BadSeverityInPri)
       ELSE IF fac = None THEN Err(BadFacilityInPri)
       ELSE Ok([severity |-> sev[1], facility |-> fac[1]], <<>>)

\* pri & 0x7 and pri >> 3, for the non-negative pri that parse_num yields
parse_pri_val(pri) ==
    LET sev == severity_from_int(pri % 8)
        fac == facility_from_int(pri \div 8)
    IN IF sev = None THEN Err(BadSeverityInPri)
       ELSE IF fac = None THEN Err(BadFacilityInPri)
       ELSE Ok([severity |-> sev[1], facility |-> fac[1]], <<>>)

Months == <<"Jan", "Feb", "Mar", "Apr", "May", "Jun",
            "Jul", "Aug", "Sep", "Oct", "Nov", "Dec">>

parse_month(s) ==
    LET tw == take_while(s, IsMonthChar, 3)
    IN IF tw.rest = None THEN Err(UnexpectedEndOfInput)
       ELSE IF \E i \in 1..12 : Chars(Months[i]) = tw.res
            THEN Ok(CHOOSE i \in 1..12 : Chars(Months[i]) = tw.res, tw.rest[1])
            ELSE Err(MonthConversionErr(tw.res))

\* Days from 1970-01-01 to the first day of month tm_mon (0..11) of the year
\* 1900 + tm_year, in the proleptic Gregorian calendar.
days_to_month(tm_year, tm_mon) ==
    LET y == IF tm_mon < 2 THEN tm_year + 1900 - 1 ELSE tm_year + 1900
        era == y \div 400
        yoe == y - era * 400
        mp == (tm_mon + 10) % 12
        doy == (153 * mp + 2) \div 5
        doe == yoe * 365 + yoe \div 4 - yoe \div 100 + doy
    IN era * 146097 + doe - 719468

\* tm.to_utc().to_timespec().sec for a tm with tm_utcoff = 0: timegm, which
\* counts day, hour, minute and second linearly past their usual ranges.
to_timespec_sec(tm) ==
    (days_to_month(tm.tm_year, tm.tm_mon) + tm.tm_mday - 1) * 86400
        + tm.tm_hour * 3600 + tm.tm_min * 60 + tm.tm_sec

\* time::empty_tm()
empty_tm == [tm_year |-> 0, tm_mon |-> 0, tm_mday |-> 0,
             tm_hour |-> 0, tm_min |-> 0, tm_sec |-> 0]

\* parse_timestamp's cursor and tm while it runs; ok is FALSE once a take_item!
\* or take_char! has returned with err.
tm_start(m) == [ok |-> TRUE, err |-> NoErr, rest |-> m, tm |-> empty_tm]

\* tm.field = take_item!(r, rest) + off, for the ParseResult r
tm_item(st, field, r, off) ==
    IF ~st.ok THEN st
    ELSE IF r.ok THEN [st EXCEPT !.rest = r.rest, !.tm[field] = r.val + off]
    ELSE [st EXCEPT !.ok = FALSE, !.err = r.err]

\* tm.tm_mon = take_item!(parse_month(rest), rest) - 1
tm_month(st) == tm_item(st, "tm_mon", parse_month(st.rest), -1)

\* tm.field = take_item!(parse_num(rest, min_digits, max_digits), rest)
tm_num(st, field, min_digits, max_digits) ==
    tm_item(st, field, parse_num(st.rest, min_digits, max_digits), 0)

\* take_char!(rest, c)
tm_char(st, c) ==
    IF ~st.ok THEN st
    ELSE IF take_char(st.rest, c).ok THEN [st EXCEPT !.rest = Drop(st.rest, 1)]
    ELSE [st EXCEPT !.ok = FALSE, !.err = take_char(st.rest, c).err]

\* rest = maybe_expect_char!(rest, c).unwrap_or(rest)
tm_maybe_char(st, c) ==
    IF ~st.ok THEN st ELSE [st EXCEPT !.rest = maybe_expect_char(st.rest, c)]

\* tm_year with the cursor moved past the optional space even when no year
\* follows (rest = maybe_rest outside the match)
tm_year_eats_space(st, now) ==
    IF ~st.ok THEN st
    ELSE IF parse_num(maybe_expect_char(st.rest, " "), 4, 4).ok
    THEN tm_item(st, "tm_year", parse_num(maybe_expect_char(st.rest, " "), 4, 4), -1900)
    ELSE [st EXCEPT !.tm.tm_year = now - 1900,
                    !.rest = maybe_expect_char(st.rest, " ")]

\* Lines 168-178: the optional year. The look-ahead works on maybe_rest; rest
\* moves only when a year was parsed, and otherwise the year is that of now.
tm_year(st, now) ==
    IF ~st.ok THEN st
    ELSE IF parse_num(maybe_expect_char(st.rest, " "), 4, 4).ok
    THEN tm_item(st, "tm_year", parse_num(maybe_expect_char(st.rest, " "), 4, 4), -1900)
    ELSE [st EXCEPT !.tm.tm_year = now - 1900]

\* parse_timestamp(m); now is the year time::now() reports (1900 + tm_year).
parse_timestamp(m, now) ==
    IF starts_with(m, "-") THEN Ok(None, Drop(m, 1))
    ELSE
    LET mon == tm_month(tm_start(m))
        sp1 == tm_maybe_char(tm_char(mon, " "), " ")
        mday == tm_num(sp1, "tm_mday", 1, 2)
        hour == tm_num(tm_char(mday, " "), "tm_hour", 2, 2)
        min == tm_num(tm_char(hour, ":"), "tm_min", 2, 2)
        sec == tm_num(tm_char(min, ":"), "tm_sec", 2, 2)
        end == tm_year(sec, now)
    IN IF end.ok THEN Ok(Some(to_timespec_sec(end.tm)), end.rest)
       ELSE Err(end.err)

\* The first 0-based index in 0..Len(m)-1 at which stop holds, as Some(idx)
first_index(m, stop) ==
    IF stop = {} THEN None
    ELSE Some(CHOOSE i \in stop : \A j \in stop : i <= j)

\* parse_term with a run that reaches the end of the input returned as the term
parse_term_to_end(m, min_length, max_length) ==
    IF starts_with(m, "-") THEN Ok(None, Drop(m, 1))
    ELSE
    LET outside(idx) == Ord(m[idx + 1]) < 33 \/ Ord(m[idx + 1]) > 126
        at == first_index(m, {idx \in 0..(Len(m) - 1) :
                                  outside(idx) \/ idx >= max_length})
    IN IF at = None THEN Ok(Some(m), <<>>)
       ELSE IF outside(at[1]) /\ at[1] < min_length THEN Err(TooFewDigits)
       ELSE Ok(Some(Take(m, at[1])), Drop(m, at[1]))

parse_term(m, min_length, max_length) ==
    IF starts_with(m, "-") THEN Ok(None, Drop(m, 1))
    ELSE
    LET outside(idx) == Ord(m[idx + 1]) < 33 \/ Ord(m[idx + 1]) > 126
        at == first_index(m, {idx \in 0..(Len(m) - 1) :
                                  outside(idx) \/ idx >= max_length})
    IN IF at = None THEN Ok(None, m)
       ELSE IF outside(at[1]) /\ at[1] < min_length THEN Err(TooFewDigits)
       ELSE Ok(Some(Take(m, at[1])), Drop(m, at[1]))

\* parse_hostname with the length test off by one (idx > max_length)
parse_hostname_off_by_one(m) ==
    IF starts_with(m, "-") THEN Ok(None, Drop(m, 1))
    ELSE
    LET min_length == 1
        max_length == 255
        chr(idx) == Ord(m[idx + 1])
        outside(idx) == (chr(idx) < 33 \/ chr(idx) > 126)
                            /\ (chr(idx) # 91 \/ chr(idx) = 93)
        at == first_index(m, {idx \in 0..(Len(m) - 1) :
                                  \/ outside(idx)
                                  \/ idx > max_length
                                  \/ chr(idx) = 91
                                  \/ chr(idx) = 93})
    IN IF at = None THEN Err(UnexpectedEndOfInput)
       ELSE IF outside(at[1]) /\ at[1] < min_length THEN Err(TooFewDigits)
       ELSE Ok(Some(Take(m, at[1])), Drop(m, at[1]))

\* parse_hostname without the stop at '[' and ']'
parse_hostname_no_bracket(m) ==
    IF starts_with(m, "-") THEN Ok(None, Drop(m, 1))
    ELSE
    LET min_length == 1
        max_length == 255
        chr(idx) == Ord(m[idx + 1])
        outside(idx) == chr(idx) < 33 \/ chr(idx) > 126
        at == first_index(m, {idx \in 0..(Len(m) - 1) :
                                  outside(idx) \/ idx >= max_length})
    IN IF at = None THEN Err(UnexpectedEndOfInput)
       ELSE IF outside(at[1]) /\ at[1] < min_length THEN Err(TooFewDigits)
       ELSE Ok(Some(Take(m, at[1])), Drop(m, at[1]))

parse_hostname(m) ==
    IF starts_with(m, "-") THEN Ok(None, Drop(m, 1))
    ELSE
    LET min_length == 1
        max_length == 255
        chr(idx) == Ord(m[idx + 1])
        outside(idx) == (chr(idx) < 33 \/ chr(idx) > 126)
                            /\ (chr(idx) # 91 \/ chr(idx) = 93)
        at == first_index(m, {idx \in 0..(Len(m) - 1) :
                                  \/ outside(idx)
                                  \/ idx >= max_length
                                  \/ chr(idx) = 91
                                  \/ chr(idx) = 93})
    IN IF at = None THEN Err(UnexpectedEndOfInput)
       ELSE IF outside(at[1]) /\ at[1] < min_length THEN Err(TooFewDigits)
       ELSE Ok(Some(Take(m, at[1])), Drop(m, at[1]))

(***************************************************************************)
(* The record, and the calls the model makes                               *)
(***************************************************************************)

\* ProcIdType
PID(n) == [variant |-> "PID", pid |-> n, name |-> <<>>]
Name(s) == [variant |-> "Name", pid |-> 0, name |-> s]

\* The locals of parse_message_s before any is assigned (-1: not assigned)
NoRecord == [severity |-> -1, facility |-> -1, version |-> -1,
             timestamp |-> None, hostname |-> None, proc_id |-> None,
             tag |-> None, msg |-> <<>>]

NoResult == Err(NoErr)

\* The year time::now() may report when a line carries none
NowYears == {2026, 2027}

(***************************************************************************)
(* parse_message_s, one action per field of the grammar                    *)
(***************************************************************************)

\* The first failing take_char! or take_item! returns from parse_message_s with
\* its error; pc stays at the field that failed.
Fail(e) ==
    /\ err' = e
    /\ UNCHANGED <<pc, rest, rec>>

Failed == err # NoErr

\* Lines 237-240: '<' digits{1,3} '>' and the decoding of the value
TakePri ==
    /\ pc = "pri" /\ ~Failed
    /\ LET lt == take_char(rest, "<")
           prival == IF lt.ok THEN parse_num(lt.rest, 1, 3) ELSE Err(lt.err)
           gt == IF prival.ok THEN take_char(prival.rest, ">") ELSE Err(prival.err)
           sf == IF gt.ok THEN parse_pri_val(prival.val) ELSE Err(gt.err)
       IN /\ ret' = prival
          /\ IF sf.ok
             THEN /\ pc' = "timestamp"
                  /\ rest' = gt.rest
                  /\ rec' = [rec EXCEPT !.severity = sf.val.severity,
                                        !.facility = sf.val.facility]
                  /\ UNCHANGED err
             ELSE Fail(sf.err)
    /\ UNCHANGED <<call, now_year>>

\* Line 243; now_year is the year of the system clock during the call.
ParseTimestamp ==
    /\ pc = "timestamp" /\ ~Failed
    /\ \E now \in NowYears :
         LET ts == parse_timestamp(rest, now)
         IN /\ ret' = ts
            /\ now_year' = now
            /\ IF ts.ok
               THEN /\ pc' = "space"
                    /\ rest' = ts.rest
                    /\ rec' = [rec EXCEPT !.timestamp = ts.val]
                    /\ UNCHANGED err
               ELSE Fail(ts.err)
    /\ UNCHANGED call

\* Line 245
TakeSpace ==
    /\ pc = "space" /\ ~Failed
    /\ LET sp == take_char(rest, " ")
       IN IF sp.ok
          THEN pc' = "hostname" /\ rest' = sp.rest /\ UNCHANGED <<rec, err>>
          ELSE Fail(sp.err)
    /\ UNCHANGED <<call, now_year, ret>>

\* Line 246
ParseHostname ==
    /\ pc = "hostname" /\ ~Failed
    /\ LET hostname == parse_hostname(rest)
       IN /\ ret' = hostname
          /\ IF hostname.ok
             THEN /\ pc' = "bracket"
                  /\ rest' = hostname.rest
                  /\ rec' = [rec EXCEPT !.hostname = hostname.val]
                  /\ UNCHANGED err
             ELSE Fail(hostname.err)
    /\ UNCHANGED <<call, now_year>>

\* Lines 247-249: an optional '[', then an optional ' '
SkipBracket ==
    /\ pc = "bracket" /\ ~Failed
    /\ pc' = "proc_id"
    /\ rest' = maybe_expect_char(maybe_expect_char(rest, "["), " ")
    /\ UNCHANGED <<call, now_year, rec, ret, err>>

\* proc_id_step with the closing ']' consumed after the token
proc_id_step_closes(r) ==
    LET p == parse_hostname(r)
    IN IF p.ok /\ p.val # None
       THEN LET n == i32_from_str(p.val[1])
            IN [proc_id |-> Some(IF n # None THEN PID(n[1]) ELSE Name(p.val[1])),
                rest |-> maybe_expect_char(maybe_expect_char(p.rest, "]"), " ")]
       ELSE [proc_id |-> None, rest |-> r]

\* Lines 251-264: the value of proc_id and the cursor after the match
proc_id_step(r) ==
    LET p == parse_hostname(r)
    IN IF p.ok /\ p.val # None
       THEN LET n == i32_from_str(p.val[1])
            IN [proc_id |-> Some(IF n # None THEN PID(n[1]) ELSE Name(p.val[1])),
                rest |-> maybe_expect_char(p.rest, " ")]
       ELSE [proc_id |-> None, rest |-> r]

ParseProcId ==
    /\ pc = "proc_id" /\ ~Failed
    /\ pc' = "tag"
    /\ ret' = parse_hostname(rest)
    /\ rest' = proc_id_step(rest).rest
    /\ rec' = [rec EXCEPT !.proc_id = proc_id_step(rest).proc_id]
    /\ UNCHANGED <<call, now_year, err>>

\* Line 266
ParseTag ==
    /\ pc = "tag" /\ ~Failed
    /\ LET tag == parse_term(rest, 1, 255)
       IN /\ ret' = tag
          /\ IF tag.ok
             THEN /\ pc' = "msg"
                  /\ rest' = tag.rest
                  /\ rec' = [rec EXCEPT !.tag = tag.val]
                  /\ UNCHANGED err
             ELSE Fail(tag.err)
    /\ UNCHANGED <<call, now_year>>

\* Lines 268-283: an optional ' ', the message body, the record
BuildMessage ==
    /\ pc = "msg" /\ ~Failed
    /\ pc' = "done"
    /\ rest' = maybe_expect_char(rest, " ")
    /\ rec' = [rec EXCEPT !.version = 0, !.msg = maybe_expect_char(rest, " ")]
    /\ UNCHANGED <<call, now_year, ret, err>>

\* A direct call of parse_num(s, min_digits, max_digits)
CallParseNum ==
    /\ pc = "parse_num" /\ ~Failed
    /\ pc' = "returned"
    /\ ret' = parse_num(call.s, call.min_digits, call.max_digits)
    /\ UNCHANGED <<call, now_year, rest, rec, err>>

Next ==
    \/ TakePri
    \/ ParseTimestamp
    \/ TakeSpace
    \/ ParseHostname
    \/ SkipBracket
    \/ ParseProcId
    \/ ParseTag
    \/ BuildMessage
    \/ CallParseNum

(***************************************************************************)
(* The inputs                                                              *)
(***************************************************************************)

\* The largest priority value written in the inputs, and the largest one
\* that is also written with one and with two leading zeros
MaxPri == 4096
MaxPad == 192

Rep(c, n) == [i \in 1..n |-> c]

\* A timestamp as a line writes it: base is the text up to the seconds, year
\* is None or Some(y), and a year is written as a space and four digits.
Stamp(base, year, mon, mday, hour, min, sec) ==
    [base |-> Chars(base), year |-> year,
     text |-> IF year = None THEN Chars(base)
              ELSE Chars(base) \o <<" ">> \o Chars(ToString(year[1])),
     tm |-> [tm_year |-> 0, tm_mon |-> mon, tm_mday |-> mday,
             tm_hour |-> hour, tm_min |-> min, tm_sec |-> sec]]

NoStamp == Stamp("-", None, 0, 0, 0, 0, 0)
StampNoYear == Stamp("Jan 8 12:14:16", None, 0, 8, 12, 14, 16)
Stamp2017 == Stamp("Jan  8 12:14:16", Some(2017), 0, 8, 12, 14, 16)
StampDec == Stamp("Dec 31 23:59:59", Some(1999), 11, 31, 23, 59, 59)

Stamps == {NoStamp, StampNoYear, Stamp2017, StampDec}

\* The text before the hostname position: "<" pri ">" ts " "
Prefix(pri, ts) == <<"<">> \o pri \o <<">">> \o ts.text \o <<" ">>

\* A call of parse_message on the line s, which is
\*   Prefix host "[" tok "]" body     (form "bracket"),
\*   Prefix host " " tok " " tag body (form "plain"),
\*   Prefix body                      (form "raw"),
\*   "<" pri ">" ts body              (form "stamp"), or
\*   body                             (form "text").
Line(form, pri, ts, host, tok, tag, body) ==
    [fn |-> "parse_message", min_digits |-> 0, max_digits |-> 0,
     form |-> form, pri |-> pri, ts |-> ts, host |-> host, tok |-> tok,
     tag |-> tag, body |-> body,
     s |-> CASE form = "bracket" ->
                  Prefix(pri, ts) \o host \o <<"[">> \o tok \o <<"]">> \o body
             [] form = "plain" ->
                  Prefix(pri, ts) \o host \o <<" ">> \o tok \o <<" ">> \o tag \o body
             [] form = "raw" -> Prefix(pri, ts) \o body
             [] form = "stamp" -> <<"<">> \o pri \o <<">">> \o ts.text \o body
             [] OTHER -> body]

\* A call of parse_num(s, min_digits, max_digits)
NumCall(s, min_digits, max_digits) ==
    [fn |-> "parse_num", min_digits |-> min_digits, max_digits |-> max_digits,
     form |-> "num", pri |-> <<>>, ts |-> NoStamp, host |-> <<>>, tok |-> <<>>,
     tag |-> <<>>, body |-> <<>>, s |-> s]

PriTexts ==
    {Chars(ToString(n)) : n \in 0..MaxPri}
    \cup {<<"0">> \o Chars(ToString(n)) : n \in 0..MaxPad}
    \cup {<<"0", "0">> \o Chars(ToString(n)) : n \in 0..MaxPad}

PriLines ==
    {Line("raw", pri, NoStamp, <<>>, <<>>, <<>>, Chars("- - - - -")) :
        pri \in PriTexts}

Hosts == {Chars("host1"), Chars("-"), Chars("-h"), Chars("2017"),
          Chars("2017x"), Chars("20170101"), Chars("12"),
          Rep("a", 255), Rep("a", 256)}

Toks == {Chars("123"), Chars("abc"), Chars("+5"), Chars("-5"), Chars("-"),
         Chars("2147483647"), Chars("2147483648"), Rep("7", 255), Rep("b", 256)}

BracketLines ==
    {Line("bracket", Chars("78"), ts, host, tok, <<>>, body) :
        ts \in Stamps, host \in Hosts, tok \in Toks,
        body \in {<<>>, Chars(" CROND some_message"), Chars(" "), Chars("x y"),
                  Chars("  two")}}

Tags == {Chars("tag"), Chars("-"), Chars("t[1]"), Rep("c", 255), Rep("c", 256)}

PlainLines ==
    {Line("plain", Chars("1"), ts, host, tok, tag, body) :
        ts \in {NoStamp, StampNoYear}, host \in Hosts, tok \in Toks,
        tag \in Tags, body \in {<<>>, Chars(" msg")}}

\* Lines that end at or soon after the separator that follows the timestamp
RawLines ==
    {Line("raw", Chars("1"), ts, <<>>, <<>>, <<>>, Chars(body)) :
        ts \in {StampNoYear, Stamp2017},
        body \in {"", "2017", "2017 ", "201", "201 x", "host", "host tag msg"}}

\* Lines whose timestamp is followed by body with no separator of its own:
\* they end with the seconds or the year, or go on with any character
StampLines ==
    {Line("stamp", Chars("1"), ts, <<>>, <<>>, <<>>, Chars(body)) :
        ts \in {StampNoYear, Stamp2017, StampDec},
        body \in {"", " ", "x", ":", "[", " x", " host tag msg", " 201 host",
                  " 2017x host tag", " 1999 host tag msg", " 1999"}}

Texts == {"<1>- - - - - -",
             "<1>Jan 8 12:14:16 host tag -",
             "<1>Jan 8 12:14:16 1995 host - - - -",
             "<78>Jan  8 12:14:16 2017 host1[123] CROND some_message",
             "<4096>Jan 8 12:14:16 - - - - - -",
             "<134>Feb 18 20:53:31 hostname.local nginx: I am a message",
             "<190>May 13 21:45:18 coconut hotdog: hi",
             "<78>Mar 15 14:16:22 host1 CROND 10391 - [meta sequenceId=\"29\"] some_message",
             "<190>Jan 8 12:14:16 batch6sj - - - [meta sequenceId=\"21881798\"][origin x-service=\"tracking\"] metascutellar",
             "<1>- [123] tag msg", "<1>- ] tag msg", "<1>-  host tag", "<1>- \thost tag",
             "<1>- é tag", "<1>- host", "<1>- host ", "<1>- - tagrun", "<1>- host\ttag",
             "<1>Jan 8 12:14:16 2017", "<1>Jan 8 12:14:162017 host tag msg",
             "<1>Jax 8 12:14:16 host tag", "<1>jan 8 12:14:16 host tag",
             "<1>Jan 8 1:14:16 host tag", "<1>Jan 8 12:14:1 host tag",
             "<1>Jan 8 12:14", "<1>Jan 08 12:14:16 host tag", "<1>Jan   8 12:14:16 host tag",
             "<1>Jan 99 99:99:99 2017 host tag", "<1>Ja", "<1>-", "<1>", "<1", "<", "",
             "1>- - -", "<>- - -", "<a>- - -", "<1>-host tag", "<1>- -[1] tag msg",
             "<1>- host[ 12] tag msg", "<1>- host [12] tag msg", "<1>- host[] tag msg"}

TextLines ==
    {Line("text", <<>>, NoStamp, <<>>, <<>>, <<>>, Chars(text)) : text \in Texts}

\* The longest run of digits in a direct call of parse_num
MaxDigitRun == 5

DigitRuns ==
    UNION {[1..n -> {"0", "9"}] : n \in 0..MaxDigitRun}

NumCalls ==
    {NumCall(run \o Chars(after), lim[1], lim[2]) :
        run \in DigitRuns, after \in {"", ">", " ", ":x"},
        lim \in {<<1, 2>>, <<1, 3>>, <<2, 2>>, <<4, 4>>}}

Calls == PriLines \cup BracketLines \cup PlainLines \cup RawLines
             \cup StampLines \cup TextLines \cup NumCalls

Init ==
    /\ call \in Calls
    /\ now_year = 0
    /\ pc = IF call.fn = "parse_num" THEN "parse_num" ELSE "pri"
    /\ rest = call.s
    /\ rec = NoRecord
    /\ ret = NoResult
    /\ err = NoErr

Spec == Init /\ [][Next]_vars

(***************************************************************************)
(* What a reader sees in a text, for the statements below                  *)
(***************************************************************************)

IsPrintable(c) == Ord(c) >= 33 /\ Ord(c) <= 126

\* A non-empty run of printable-ASCII bytes with no bracket in it
IsToken(s) ==
    /\ Len(s) >= 1
    /\ \A i \in 1..Len(s) : IsPrintable(s[i]) /\ s[i] \notin {"[", "]"}

\* The number of decimal digits s begins with
LeadingDigits(s) ==
    Cardinality({n \in 1..Len(s) : \A i \in 1..n : s[i] \in IsDigit})

RECURSIVE DecValue(_)
\* The number a run of decimal digits writes
DecValue(ds) ==
    IF Len(ds) = 0 THEN 0
    ELSE DecValue(Take(ds, Len(ds) - 1)) * 10 + (Ord(ds[Len(ds)]) - 48)

\* The call parses "<" pri ">- - - - - -": a priority and nothing but placeholders
IsPriLine == call.form = "raw" /\ call.ts = NoStamp

(***************************************************************************)
(* Priority                                                                *)
(***************************************************************************)

\* C2: for every priority value N in 0..191 written with 1 to 3 decimal digits
\* at the start of an otherwise well-formed line, parse_message succeeds and
\* the record has severity = N mod 8 and facility = N div 8, so that
\* facility * 8 + severity = N.
C2_PriDecoded ==
    (IsPriLine /\ Len(call.pri) \in 1..3 /\ DecValue(call.pri) <= 191) =>
        /\ ~Failed
        /\ pc # "pri" =>
             /\ rec.severity = DecValue(call.pri) % 8
             /\ rec.facility = DecValue(call.pri) \div 8
             /\ rec.facility * 8 + rec.severity = DecValue(call.pri)

C2_Witness ==
    /\ IsPriLine /\ call.pri = Chars("191")
    /\ pc = "done" /\ rec.facility = 23 /\ rec.severity = 7

\* C3: every line whose priority value is 192 or more, however many
\* digits write it, fails with BadFacilityInPri and produces no record.
C3_AlwaysBadFacility ==
    (IsPriLine /\ DecValue(call.pri) >= 192) =>
        /\ pc = "pri" /\ rec = NoRecord
        /\ Failed => err = BadFacilityInPri

(***************************************************************************)
(* parse_num                                                               *)
(***************************************************************************)

\* C9: parse_num(s, min, max) fails with TooManyDigits whenever s begins with
\* more than max decimal digits; it never returns the first max digits and
\* leaves the surplus at the front of the remainder.
C9_TooManyDigits ==
    (call.fn = "parse_num" /\ pc = "returned"
        /\ LeadingDigits(call.s) > call.max_digits) =>
            ret = Err(TooManyDigits)

(***************************************************************************)
(* Placeholders                                                            *)
(***************************************************************************)

\* C1: at each of the four optional fields (timestamp, hostname, process
\* identifier, tag), when the next character is the placeholder '-', the field
\* is decoded as absent and the cursor advances by exactly that one character,
\* so that the following field is parsed from the text after the placeholder.
C1_PlaceholderConsumed ==
    [][(~Failed /\ starts_with(rest, "-")
            /\ pc \in {"timestamp", "hostname", "proc_id", "tag"}) =>
          /\ ~Failed'
          /\ rest' = Drop(rest, 1)
          /\ pc = "timestamp" => rec'.timestamp = None
          /\ pc = "hostname" => rec'.hostname = None
          /\ pc = "proc_id" => rec'.proc_id = None
          /\ pc = "tag" => rec'.tag = None]_vars

(***************************************************************************)
(* Hostname                                                                *)
(***************************************************************************)

\* C7: in every record parse_message returns, a present hostname is 1 to 255
\* bytes long: a hostname of zero bytes before its terminator fails with
\* TooFewDigits instead.
C7_HostnameLength ==
    (pc = "done" /\ rec.hostname # None) =>
        Len(rec.hostname[1]) >= 1 /\ Len(rec.hostname[1]) <= 255

(***************************************************************************)
(* Tokens of 256 bytes and more, and runs that reach the end of the input  *)
(***************************************************************************)

\* s begins with a token of 256 or more printable, non-bracket bytes that is
\* not the placeholder
IsLongRun(s) == Len(s) >= 256 /\ IsToken(Take(s, 256)) /\ s[1] # "-"

\* s is, to its end, a run of 1 to 255 printable bytes that is not the placeholder
IsFullRun(s) ==
    /\ Len(s) >= 1 /\ Len(s) <= 255 /\ s[1] # "-"
    /\ \A i \in 1..Len(s) : IsPrintable(s[i])

\* The process identifier a captured token becomes
ProcIdOf(tok) ==
    IF i32_from_str(tok) # None THEN PID(i32_from_str(tok)[1]) ELSE Name(tok)

\* C6 as claimed: a line with a token of 256 or more printable, non-bracket
\* bytes in the hostname, process-identifier or tag position is rejected:
\* parse_message returns no record for it.
C6_LongTokenRejected ==
    (call.form = "plain"
        /\ (Len(call.host) >= 256 \/ Len(call.tok) >= 256 \/ Len(call.tag) >= 256))
      => pc # "done"

\* C6 amended: a token of 256 or more printable, non-bracket bytes (not
\* starting with '-') at the hostname, process-identifier or tag position is
\* not rejected: the field parser succeeds, the field holds the first 255
\* bytes, and the rest of the token stays at the front of the remaining input.
C6_LongTokenTruncated ==
    [][(~Failed /\ IsLongRun(rest)) =>
          /\ pc = "hostname" =>
               /\ ~Failed' /\ pc' = "bracket"
               /\ rec'.hostname = Some(Take(rest, 255))
               /\ rest' = Drop(rest, 255)
          /\ pc = "proc_id" =>
               /\ rec'.proc_id = Some(ProcIdOf(Take(rest, 255)))
               /\ rest' = Drop(rest, 255)
          /\ pc = "tag" =>
               /\ ~Failed' /\ pc' = "msg"
               /\ rec'.tag = Some(Take(rest, 255))
               /\ rest' = Drop(rest, 255)]_vars

C6_Witness ==
    /\ call.form = "plain" /\ Len(call.host) >= 256
    /\ pc = "done"
    /\ rec.hostname = Some(Take(call.host, 255))
    /\ rec.proc_id = Some(Name(Drop(call.host, 255)))

\* C8 as claimed: when the tag position holds a run of 1 to 255 printable bytes
\* (not starting with '-') that reaches the end of the input, the tag is
\* present and equal to the run, and the message body is empty.
C8_RunIsTag ==
    [][(~Failed /\ pc = "tag" /\ IsFullRun(rest)) =>
          /\ ~Failed'
          /\ rec'.tag = Some(rest)
          /\ rest' = <<>>]_vars

\* C8 amended: when the tag position holds a run of 1 to 255 printable bytes
\* (not starting with '-') that reaches the end of the input, parse_message
\* succeeds, the tag is absent and the message body is the run.
C8_RunIsBody ==
    [][/\ (~Failed /\ pc = "tag" /\ IsFullRun(rest)) =>
             /\ ~Failed' /\ pc' = "msg"
             /\ rec'.tag = None
             /\ rest' = rest
       /\ (~Failed /\ pc = "msg" /\ IsFullRun(rest) /\ rec.tag = None) =>
             /\ ~Failed' /\ pc' = "done"
             /\ rec'.msg = rest]_vars

C8_Witness ==
    /\ call.form = "plain" /\ call.tag = Rep("c", 255) /\ call.body = <<>>
    /\ pc = "done"
    /\ rec.proc_id # None
    /\ rec.tag = None
    /\ rec.msg = call.tag

(***************************************************************************)
(* host[tok] body                                                          *)
(***************************************************************************)

\* The line is Prefix host "[" tok "]" body with host and tok tokens of at most
\* 255 bytes that are not placeholders, and host is not taken for the year of
\* a timestamp written without one.
IsBracketLine ==
    /\ call.form = "bracket"
    /\ IsToken(call.host) /\ Len(call.host) <= 255 /\ call.host[1] # "-"
    /\ IsToken(call.tok) /\ Len(call.tok) <= 255 /\ call.tok[1] # "-"
    /\ call.ts = NoStamp \/ call.ts.year # None \/ LeadingDigits(call.host) < 4

\* parse_term finds the end of a term in s: a byte outside 33..126, or the
\* 256th byte
TermEnds(s) == \E i \in 1..Len(s) : ~IsPrintable(s[i]) \/ i > 255

\* C4 as claimed: for every line <P>TIMESTAMP host[tok] body with host and tok
\* non-empty runs of printable bytes without brackets, parse_message succeeds
\* with hostname = host, process identifier = PID(n) when tok parses as the
\* signed 32-bit integer n and Name(tok) otherwise, and message body = body.
C4_AnyToken ==
    (call.form = "bracket" /\ IsToken(call.host) /\ IsToken(call.tok)
        /\ starts_with(call.body, " ")) =>
        /\ ~Failed
        /\ pc = "done" =>
             /\ rec.hostname = Some(call.host)
             /\ rec.proc_id = Some(ProcIdOf(call.tok))
             /\ rec.msg = Drop(call.body, 1)

\* C4 amended: the same, for host and tok of at most 255 bytes that do not
\* begin with '-', and a host that does not begin with four digits when the
\* timestamp is written without a year.
C4_BracketLine ==
    (IsBracketLine /\ starts_with(call.body, " ")) =>
        /\ ~Failed
        /\ pc = "done" =>
             /\ rec.hostname = Some(call.host)
             /\ rec.proc_id = Some(ProcIdOf(call.tok))
             /\ rec.msg = Drop(call.body, 1)

C4_Witness ==
    /\ IsBracketLine /\ call.ts = Stamp2017
    /\ call.host = Chars("host1") /\ call.tok = Chars("abc")
    /\ call.body = Chars("  two")
    /\ pc = "done"
    /\ rec.hostname = Some(Chars("host1"))
    /\ rec.proc_id = Some(Name(Chars("abc")))
    /\ rec.msg = Chars(" two")

\* C10 as claimed: the process-identifier step never consumes the closing ']':
\* after the process identifier is captured from [tok], the ']' is at the
\* front of the remaining input and the tag parser captures it as the first
\* byte of the tag; for host[tok] WORD rest the tag is "]" and WORD is in the
\* message body.
C10_BracketIsTag ==
    IsBracketLine =>
        /\ (pc = "tag" /\ ~Failed) =>
             /\ rec.proc_id = Some(ProcIdOf(call.tok))
             /\ rest = <<"]">> \o call.body
        /\ pc \in {"msg", "done"} =>
             /\ rec.tag # None
             /\ starts_with(rec.tag[1], "]")
        /\ (pc = "done" /\ starts_with(call.body, " ")) =>
             /\ rec.tag = Some(<<"]">>)
             /\ rec.msg = Drop(call.body, 1)

\* C10 amended: the same, except that the tag parser captures the ']' as the
\* first byte of the tag only when it finds the end of a term after it; when
\* the printable run that starts at ']' reaches the end of the input, the tag
\* is absent and the ']' is the first byte of the message body.
C10_BracketLeft ==
    IsBracketLine =>
        /\ (pc = "tag" /\ ~Failed) =>
             /\ rec.proc_id = Some(ProcIdOf(call.tok))
             /\ rest = <<"]">> \o call.body
        /\ (pc \in {"msg", "done"} /\ TermEnds(<<"]">> \o call.body)) =>
             /\ rec.tag # None
             /\ starts_with(rec.tag[1], "]")
        /\ (pc \in {"msg", "done"} /\ ~TermEnds(<<"]">> \o call.body)) =>
             /\ rec.tag = None
             /\ pc = "done" => rec.msg = <<"]">> \o call.body
        /\ (pc = "done" /\ starts_with(call.body, " ")) =>
             /\ rec.tag = Some(<<"]">>)
             /\ rec.msg = Drop(call.body, 1)

C10_Witness ==
    /\ IsBracketLine /\ call.tok = Chars("123")
    /\ call.body = Chars(" CROND some_message")
    /\ pc = "done"
    /\ rec.proc_id = Some(PID(123))
    /\ rec.tag = Some(<<"]">>)
    /\ rec.msg = Chars("CROND some_message")

(***************************************************************************)
(* The optional year                                                       *)
(***************************************************************************)

\* The line has a timestamp written as base, or base year
HasStamp ==
    call.form \in {"bracket", "plain", "raw", "stamp"} /\ call.ts # NoStamp

\* The text after the seconds of the timestamp
AfterSeconds == Drop(call.s, Len(call.pri) + 2 + Len(call.ts.base))

\* The text after the seconds, past one optional space
PastSpace == maybe_expect_char(AfterSeconds, " ")

\* The timestamp of the line's month, day, hour, minute and second in year y
StampSec(y) == to_timespec_sec([call.ts.tm EXCEPT !.tm_year = y - 1900])

\* a is a space and a year: four digits that are a token of their own
IsYearToken(a) ==
    /\ Len(a) >= 5 /\ a[1] = " "
    /\ \A i \in 2..5 : a[i] \in IsDigit
    /\ Len(a) = 5 \/ ~IsPrintable(a[6])

\* No digit run of the line is longer than the parser reads in one piece: the
\* seconds are two digits not followed by a third, and at most four digits
\* stand where the year is looked for
DigitRunsFit ==
    /\ ~(Len(AfterSeconds) >= 1 /\ AfterSeconds[1] \in IsDigit)
    /\ LeadingDigits(PastSpace) <= 4

\* A space, four digits and one character more follow the seconds
HasYearDigits ==
    /\ starts_with(AfterSeconds, " ")
    /\ LeadingDigits(PastSpace) = 4
    /\ Len(PastSpace) >= 5

\* parse_timestamp did not fail, and returned the timestamp of year y with the
\* cursor at r
StampParsed(y, r) ==
    /\ ~(pc = "timestamp" /\ Failed)
    /\ pc = "space" => rec.timestamp = Some(StampSec(y)) /\ rest = r

\* The space after the seconds is the separator, and the hostname is parsed
\* from the token after it
HostAfterSpace(a) ==
    starts_with(a, " ") =>
        /\ ~(pc = "space" /\ Failed)
        /\ pc = "hostname" => rest = Drop(a, 1)

\* C5 as claimed, on the lines where no digit follows the seconds directly and
\* at most four digits stand where the year is looked for (so that no digit
\* run is cut short): when the seconds are not followed by a year, parse_timestamp
\* yields the timestamp of the current system year and the look-ahead consumes
\* nothing: the space after the seconds is the separator and the token after
\* it is decoded as the hostname, whatever that token is. When a space and a
\* 4-digit year follow the seconds, that year is used and both are consumed.
C5_YearByToken ==
    (HasStamp /\ DigitRunsFit /\ pc # "pri") =>
        IF IsYearToken(AfterSeconds)
        THEN StampParsed(DecValue(SubSeq(AfterSeconds, 2, 5)), Drop(AfterSeconds, 5))
        ELSE StampParsed(now_year, AfterSeconds) /\ HostAfterSpace(AfterSeconds)

\* C5 amended, for lines where no digit follows the seconds directly and at
\* most four digits stand where the year is looked for. When the input ends
\* with the seconds, parse_timestamp fails with UnexpectedEndOfInput. When a
\* space, four digits and at least one character more follow the seconds, the
\* four digits are used as the year and are consumed with the space, whatever
\* the character after them is (2017x leaves x). In every other case, four
\* digits that end the input included, the timestamp is that of the current
\* system year and the look-ahead consumes nothing: the space after the seconds
\* is the separator and the token after it is handed to the hostname parser.
C5_YearByDigits ==
    (HasStamp /\ DigitRunsFit /\ pc # "pri") =>
        IF Len(AfterSeconds) = 0
        THEN pc = "timestamp" /\ (Failed => err = UnexpectedEndOfInput)
        ELSE IF HasYearDigits
        THEN StampParsed(DecValue(Take(PastSpace, 4)), Drop(PastSpace, 4))
        ELSE StampParsed(now_year, AfterSeconds) /\ HostAfterSpace(AfterSeconds)

\* The three cases: the input ends with the seconds; a year followed by a
\* character that is not a space; four digits that end the input
C5_EndsAtSeconds ==
    /\ call.form = "stamp" /\ call.ts = StampNoYear /\ call.body = <<>>
    /\ pc = "timestamp" /\ err = UnexpectedEndOfInput

C5_Witness ==
    /\ call.form = "stamp" /\ call.ts = StampNoYear
    /\ call.body = Chars(" 2017x host tag")
    /\ DigitRunsFit /\ HasYearDigits
    /\ pc = "space" /\ err = ExpectedTokenErr(" ")
    /\ rec.timestamp = Some(StampSec(2017))
    /\ rest = Chars("x host tag")

C5_YearEndsInput ==
    /\ call.form = "stamp" /\ call.ts = Stamp2017 /\ call.body = <<>>
    /\ DigitRunsFit /\ ~HasYearDigits
    /\ pc = "hostname" /\ now_year = 2027
    /\ rec.timestamp = Some(StampSec(2027))
    /\ rest = Chars("2017")

====
